---- MODULE Spec2Model ----
(***************************************************************************)
(* A model of the user-agent cache-refresh and fallback-selection pipeline *)
(* of fake_user_agent: the asynchronous, lenient selector of               *)
(* src/user_agent.py (parse, dump, remove, load_and_random, main) and the  *)
(* synchronous, strict selector of src/fake_useragent/utils.py (get,       *)
(* get_browser_versions, load, write, read, get_fake_useragent).           *)
(*                                                                         *)
(* Python strings are sequences of one-character strings, so that          *)
(* strip(), lower(), the "more" filter and the JSON encoding of the cache  *)
(* file are computed character by character, as the code does.             *)
(***************************************************************************)
EXTENDS Integers, Sequences, FiniteSets, TLC

(***************************************************************************)
(* Strings                                                                 *)
(***************************************************************************)
QUOTE == "\""
BACKSLASH == "\\"
NEWLINE == "\n"
SPACE == " "

\* str.lower() on one character
LowerChar(c) ==
    CASE c = "A" -> "a"
      [] c = "B" -> "b"
      [] c = "C" -> "c"
      [] c = "D" -> "d"
      [] c = "E" -> "e"
      [] c = "F" -> "f"
      [] c = "G" -> "g"
      [] c = "H" -> "h"
      [] c = "I" -> "i"
      [] c = "J" -> "j"
      [] c = "K" -> "k"
      [] c = "L" -> "l"
      [] c = "M" -> "m"
      [] c = "N" -> "n"
      [] c = "O" -> "o"
      [] c = "P" -> "p"
      [] c = "Q" -> "q"
      [] c = "R" -> "r"
      [] c = "S" -> "s"
      [] c = "T" -> "t"
      [] c = "U" -> "u"
      [] c = "V" -> "v"
      [] c = "W" -> "w"
      [] c = "X" -> "x"
      [] c = "Y" -> "y"
      [] c = "Z" -> "z"
      [] OTHER -> c

\* str.lower()
Lower(s) == [i \in 1..Len(s) |-> LowerChar(s[i])]

\* whitespace as str.strip() and the JSON scanner see it
IsSpace(c) == c \in {SPACE, NEWLINE, "\t", "\r"}

\* str.strip(): drop the leading and the trailing whitespace
Strip(s) ==
    LET keep == {i \in 1..Len(s) : ~IsSpace(s[i])}
    IN  IF keep = {} THEN <<>>
        ELSE LET lo == CHOOSE i \in keep : \A j \in keep : i <= j
                 hi == CHOOSE i \in keep : \A j \in keep : j <= i
             IN  SubSeq(s, lo, hi)

\* Python's  sub in s  for strings
Contains(s, sub) ==
    \E i \in 1..(Len(s) - Len(sub) + 1) : SubSeq(s, i, i + Len(sub) - 1) = sub

\* str(n) for a natural number
RECURSIVE Str(_)
Str(n) ==
    LET digit(d) == CASE d = 0 -> "0" [] d = 1 -> "1" [] d = 2 -> "2" [] d = 3 -> "3"
                      [] d = 4 -> "4" [] d = 5 -> "5" [] d = 6 -> "6" [] d = 7 -> "7"
                      [] d = 8 -> "8" [] OTHER -> "9"
    IN  IF n < 10 THEN <<digit(n)>> ELSE Str(n \div 10) \o <<digit(n % 10)>>

(***************************************************************************)
(* JSON values: a string, an array, or an object. An object is the         *)
(* sequence of its <<key, value>> pairs in insertion order, as a Python    *)
(* dict keeps them.                                                        *)
(***************************************************************************)
JStr(s) == [t |-> "str", v |-> s]
JArr(a) == [t |-> "arr", v |-> a]
JObj(o) == [t |-> "obj", v |-> o]

\* the value None
JNone == [t |-> "null", v |-> <<>>]
\* a list of strings
JList(versions) == JArr([i \in 1..Len(versions) |-> JStr(versions[i])])

\* the keys of a dict, in order
Keys(o) == [i \in 1..Len(o) |-> o[i][1]]

HasKey(o, k) == \E i \in 1..Len(o) : o[i][1] = k

\* d[k] for a key that is present
Get(o, k) == o[CHOOSE i \in 1..Len(o) : o[i][1] = k][2]

\* d[k] = v : an existing key keeps its place, a new key goes last
DictSet(o, k, v) ==
    IF HasKey(o, k)
    THEN [i \in 1..Len(o) |-> IF o[i][1] = k THEN <<k, v>> ELSE o[i]]
    ELSE Append(o, <<k, v>>)

(***************************************************************************)
(* json.dumps (default arguments: ensure_ascii, separators ", " and ": ")  *)
(***************************************************************************)
\* an encoder that leaves the backslash as it is
EscapeChar_KeepBackslash(c) ==
    CASE c = QUOTE -> <<BACKSLASH, QUOTE>>
      [] c = NEWLINE -> <<BACKSLASH, "n">>
      [] OTHER -> <<c>>

\* py_encode_basestring_ascii on one character
EscapeChar(c) ==
    CASE c = QUOTE -> <<BACKSLASH, QUOTE>>
      [] c = BACKSLASH -> <<BACKSLASH, BACKSLASH>>
      [] c = NEWLINE -> <<BACKSLASH, "n">>
      [] c = "\t" -> <<BACKSLASH, "t">>
      [] c = "\r" -> <<BACKSLASH, "r">>
      [] OTHER -> <<c>>

RECURSIVE EscapeFrom(_, _)
EscapeFrom(s, i) ==
    IF i > Len(s) THEN <<>> ELSE EscapeChar(s[i]) \o EscapeFrom(s, i + 1)

\* a string literal: the escaped characters between double quotes
DumpsStr(s) == <<QUOTE>> \o EscapeFrom(s, 1) \o <<QUOTE>>

RECURSIVE Dumps(_), DumpsItems(_, _), DumpsPairs(_, _)
\* json.dumps(v)
Dumps(v) ==
    CASE v.t = "str" -> DumpsStr(v.v)
      [] v.t = "arr" -> <<"[">> \o DumpsItems(v.v, 1) \o <<"]">>
      [] OTHER       -> <<"{">> \o DumpsPairs(v.v, 1) \o <<"}">>

DumpsItems(a, i) ==
    IF i > Len(a) THEN <<>>
    ELSE (IF i > 1 THEN <<",", SPACE>> ELSE <<>>) \o Dumps(a[i]) \o DumpsItems(a, i + 1)

DumpsPairs(o, i) ==
    IF i > Len(o) THEN <<>>
    ELSE (IF i > 1 THEN <<",", SPACE>> ELSE <<>>)
         \o DumpsStr(o[i][1]) \o <<":", SPACE>> \o Dumps(o[i][2])
         \o DumpsPairs(o, i + 1)

(***************************************************************************)
(* json.loads: the scanner of json.decoder over the text. A parse result   *)
(* is [ok, val, pos]: whether a value was read, the value, and the index   *)
(* after it. Numbers and the literals true/false/null are outside the      *)
(* alphabet of the model and read as errors.                               *)
(***************************************************************************)
ParseFail == [ok |-> FALSE, val |-> JStr(<<>>), pos |-> 0]
ParseOk(v, p) == [ok |-> TRUE, val |-> v, pos |-> p]

RECURSIVE SkipWs(_, _)
SkipWs(t, i) == IF i <= Len(t) /\ IsSpace(t[i]) THEN SkipWs(t, i + 1) ELSE i

\* the character a backslash escape stands for; <<>> for an invalid escape
Unescape(e) ==
    CASE e = QUOTE -> <<QUOTE>>
      [] e = BACKSLASH -> <<BACKSLASH>>
      [] e = "/" -> <<"/">>
      [] e = "n" -> <<NEWLINE>>
      [] e = "t" -> <<"\t">>
      [] e = "r" -> <<"\r">>
      [] OTHER -> <<>>

RECURSIVE ScanString(_, _, _)
\* py_scanstring (strict): i is the index after the opening quote
ScanString(t, i, acc) ==
    IF i > Len(t) THEN ParseFail
    ELSE IF t[i] = QUOTE THEN ParseOk(JStr(acc), i + 1)
    ELSE IF t[i] = BACKSLASH THEN
        IF i + 1 > Len(t) \/ Unescape(t[i + 1]) = <<>> THEN ParseFail
        ELSE ScanString(t, i + 2, acc \o Unescape(t[i + 1]))
    ELSE IF t[i] \in {NEWLINE, "\t", "\r"} THEN ParseFail
    ELSE ScanString(t, i + 1, Append(acc, t[i]))

RECURSIVE ScanValue(_, _), ScanArray(_, _, _), ScanObject(_, _, _)
\* scan_once: the value that starts at index i
ScanValue(t, i) ==
    IF i > Len(t) THEN ParseFail
    ELSE IF t[i] = QUOTE THEN ScanString(t, i + 1, <<>>)
    ELSE IF t[i] = "[" THEN ScanArray(t, SkipWs(t, i + 1), <<>>)
    ELSE IF t[i] = "{" THEN ScanObject(t, SkipWs(t, i + 1), <<>>)
    ELSE ParseFail

\* what follows a value that ends before index j (white space skipped),
\* inside brackets closed by `close`: [ok, last, pos]; last when the bracket
\* closes, else pos is the index of the next item after the comma
ScanNext(t, j, close) ==
    IF j > Len(t) THEN [ok |-> FALSE, last |-> TRUE, pos |-> 0]
    ELSE IF t[j] = close THEN [ok |-> TRUE, last |-> TRUE, pos |-> j + 1]
    ELSE IF t[j] = "," THEN [ok |-> TRUE, last |-> FALSE, pos |-> SkipWs(t, j + 1)]
    ELSE [ok |-> FALSE, last |-> TRUE, pos |-> 0]

\* JSONArray after an element: n is what follows it
ArrayNext(t, acc, n) ==
    IF ~n.ok THEN ParseFail
    ELSE IF n.last THEN ParseOk(JArr(acc), n.pos)
    ELSE ScanArray(t, n.pos, acc)

\* JSONArray with the element r read
ArrayElement(t, acc, r) ==
    IF ~r.ok THEN ParseFail
    ELSE ArrayNext(t, Append(acc, r.val), ScanNext(t, SkipWs(t, r.pos), "]"))

\* JSONArray: i is the index of the next element, or of the closing bracket
\* of an empty array
ScanArray(t, i, acc) ==
    IF acc = <<>> /\ i <= Len(t) /\ t[i] = "]" THEN ParseOk(JArr(<<>>), i + 1)
    ELSE ArrayElement(t, acc, ScanValue(t, i))

\* the value of a pair whose key k is read: c is the index of the colon
PairValue(t, k, c) ==
    IF ~k.ok \/ c > Len(t) \/ t[c] # ":" THEN ParseFail
    ELSE ScanValue(t, SkipWs(t, c + 1))

\* the pair of key k and value r: [ok, key, val, pos]
Pair(k, r) == [ok |-> r.ok, key |-> k.val.v, val |-> r.val, pos |-> r.pos]

\* a pair whose key k is read
PairAfterKey(t, k) == Pair(k, PairValue(t, k, SkipWs(t, k.pos)))

\* one "key": value of an object, from the key's opening quote at index i
ScanPair(t, i) ==
    PairAfterKey(t, IF i > Len(t) \/ t[i] # QUOTE THEN ParseFail
                    ELSE ScanString(t, i + 1, <<>>))

\* JSONObject after a pair: n is what follows it
ObjectNext(t, acc, n) ==
    IF ~n.ok THEN ParseFail
    ELSE IF n.last THEN ParseOk(JObj(acc), n.pos)
    ELSE ScanObject(t, n.pos, acc)

\* JSONObject with the pair p read
ObjectPair(t, acc, p) ==
    IF ~p.ok THEN ParseFail
    ELSE ObjectNext(t, DictSet(acc, p.key, p.val), ScanNext(t, SkipWs(t, p.pos), "}"))

\* JSONObject: i is the index of the next key's opening quote, or of the
\* closing brace of an empty object
ScanObject(t, i, acc) ==
    IF acc = <<>> /\ i <= Len(t) /\ t[i] = "}" THEN ParseOk(JObj(<<>>), i + 1)
    ELSE ObjectPair(t, acc, ScanPair(t, i))

\* json.loads with the value r read
LoadsEnd(t, r) ==
    IF r.ok /\ SkipWs(t, r.pos) = Len(t) + 1
    THEN [ok |-> TRUE, val |-> r.val]
    ELSE [ok |-> FALSE, val |-> JStr(<<>>)]

\* json.loads(text): [ok, val]; ok is FALSE where Python raises JSONDecodeError
Loads(t) == LoadsEnd(t, ScanValue(t, SkipWs(t, 1)))

(***************************************************************************)
(* random.choice and random.choices                                        *)
(***************************************************************************)
\* the values random.choice(v) can return, as a sequence; <<>> where it
\* raises (an empty sequence: IndexError; a dict with string keys: KeyError).
\* A str is a sequence of its characters.
ChoiceOf(v) ==
    CASE v.t = "arr" -> v.v
      [] v.t = "str" -> [i \in 1..Len(v.v) |-> JStr(<<v.v[i]>>)]
      [] OTHER       -> <<>>

RECURSIVE Accumulate(_, _)
\* itertools.accumulate(weights), up to index n
Accumulate(w, n) == IF n = 0 THEN <<>>
                    ELSE LET a == Accumulate(w, n - 1)
                         IN  Append(a, (IF n = 1 THEN 0 ELSE a[n - 1]) + w[n])

\* bisect.bisect(a, x, 0, hi): how many of a[1..hi] are <= x
Bisect(a, x, hi) == Cardinality({i \in 1..hi : a[i] <= x})

\* random.choices(population, weights=weights, k=1)[0], where r is
\* floor(random() * total): the weights are accumulated, then bisected
Choices(population, weights, r) ==
    LET cum == Accumulate(weights, Len(weights))
    IN  population[Bisect(cum, r, Len(population) - 1) + 1]

\* the values floor(random() * total) can take for these weights
Draws(weights) == 0..(Accumulate(weights, Len(weights))[Len(weights)] - 1)

(***************************************************************************)
(* src/user_agent.py: constants                                            *)
(***************************************************************************)
chrome == <<"c", "h", "r", "o", "m", "e">>
edge == <<"e", "d", "g", "e">>
firefox == <<"f", "i", "r", "e", "f", "o", "x">>
safari == <<"s", "a", "f", "a", "r", "i">>
opera == <<"o", "p", "e", "r", "a">>

BROWSERS == <<chrome, edge, firefox, safari, opera>>
RANDOM_CUM_WEIGHTS == <<80, 86, 93, 97, 100>>

\* the fixed user-agent; nothing looks inside it, so it is kept as one unit
FIXED_UA == <<"Mozilla/5.0 (Windows NT 6.1; WOW64) AppleWebKit/537.36 (KHTML, like Gecko) Chrome/29.0.1547.62 Safari/537.36">>

\* parse() gives up after this many timeouts
MAX_ATTEMPTS == 3
\* parse() keeps at most this many entries of a page
browser_num == 50

BrowserSet == {BROWSERS[i] : i \in 1..Len(BROWSERS)}

\* the browsers random.choices(BROWSERS, weights=RANDOM_CUM_WEIGHTS) can give
DrawnBrowsers == {Choices(BROWSERS, RANDOM_CUM_WEIGHTS, r) : r \in Draws(RANDOM_CUM_WEIGHTS)}

(***************************************************************************)
(* The world outside the program: what the site serves, what callers ask   *)
(* for, what a cache file can hold before the program runs.                *)
(***************************************************************************)
UA_quote == <<"a", QUOTE>>
UA_bslash == <<BACKSLASH, "n">>
UA_newline == <<"x", NEWLINE>>
UA_more == <<"M", "o", "r", "e">>

\* the text nodes of the listing a page can hold for a browser name, in page
\* order; <<>> is a page on which the structural selector matches nothing
PagesOf(b) ==
    CASE b = chrome  -> {<<>>, <<UA_quote>>, <<UA_more, UA_bslash>>}
      [] b = edge    -> {<<>>, <<UA_newline>>, <<<<"e">>, <<"E", "2">>>>}
      [] b = firefox -> {<<>>, <<<<"f">>>>}
      [] b = safari  -> {<<>>, <<<<"s">>>>}
      [] b = opera   -> {<<>>, <<<<"o">>>>}
      [] OTHER       -> {<<>>, <<<<"z">>>>}

\* what one request attempt can end in
Outcomes(b) ==
    {[kind |-> "timeout", page |-> <<>>], [kind |-> "error", page |-> <<>>]}
    \cup {[kind |-> "page", page |-> p] : p \in PagesOf(b)}

\* the browser argument of a caller: None, or a name
NoBrowser == [given |-> FALSE, name |-> <<>>]
Named(n) == [given |-> TRUE, name |-> n]

ie == <<"i", "e">>
internet_explorer == <<"i", "n", "t", "e", "r", "n", "e", "t", SPACE,
                       "e", "x", "p", "l", "o", "r", "e", "r">>
google == <<"g", "o", "o", "g", "l", "e">>
googlechrome == google \o chrome
ff == <<"f", "f">>
netscape == <<"n", "e", "t", "s", "c", "a", "p", "e">>
Chrome_padded == <<SPACE, "C", "h", "r", "O", "M", "E", NEWLINE>>

CanonicalNames == BrowserSet
AliasNames == {ie, internet_explorer, google, googlechrome, ff}
UnknownNames == {netscape, <<>>}

Requests ==
    {NoBrowser} \cup {Named(n) : n \in CanonicalNames \cup {Chrome_padded}
                                       \cup AliasNames \cup UnknownNames}

\* a cache file: absent, present but not readable as text (open() or the
\* decoding of its bytes raises), or a text
Absent == [kind |-> "absent", data |-> <<>>]
Unreadable == [kind |-> "unreadable", data |-> <<>>]
Text(t) == [kind |-> "text", data |-> t]

\* a catalog from an earlier harvest: one user-agent per browser
OldUA(b) == <<b[1], "0">>
OldCatalog == [i \in 1..Len(BROWSERS) |-> <<BROWSERS[i], JArr(<<JStr(OldUA(BROWSERS[i]))>>)>>]
\* a catalog with the edge entry alone
EdgeOnly == <<<<edge, JArr(<<JStr(OldUA(edge))>>)>>>>
\* a full catalog whose chrome list is empty
ChromeEmpty == [i \in 1..Len(BROWSERS) |->
                   IF BROWSERS[i] = chrome THEN <<chrome, JArr(<<>>)>> ELSE OldCatalog[i]]
\* the head of a catalog's text: a file cut short
CutShort == SubSeq(Dumps(JObj(OldCatalog)), 1, 14)

InitialFiles ==
    {Absent, Unreadable, Text(CutShort), Text(Dumps(JObj(OldCatalog))),
     Text(Dumps(JObj(EdgeOnly))), Text(Dumps(JObj(ChromeEmpty)))}

(***************************************************************************)
(* src/fake_user_agent/settings.py                                         *)
(***************************************************************************)
SHORTCUTS == << <<internet_explorer, edge>>, <<ie, edge>>, <<google, chrome>>,
                <<googlechrome, chrome>>, <<ff, firefox>> >>
BROWSERS_COUNT_LIMIT == 50

\* settings.HTTP_RETRIES: how many attempts get() makes
HTTP_RETRIES == 3

(***************************************************************************)
(* State                                                                   *)
(***************************************************************************)
VARIABLES
    file,         \* the cache file at the cache path
    pathHasDir,   \* whether the cache path names a directory (not "" or ".")
    dirExists,    \* whether the directory of the cache path exists
    pc,           \* where the running operation stands; "idle" between operations
    call,         \* the running (or last) operation and its arguments
    tasks,        \* dump(): the parse() task of each browser
    mtask,        \* main(): its one parse() task, kept until the next operation
    all_browsers, \* dump(): the catalog built from the results
    out,          \* how the last operation ended
    log,          \* the harvests, reads and writes of the running operation, in order
    file0,        \* the cache file when the running operation began
    listing,      \* the page the last answered request of a fetcher served
    randomize_dict, \* load(): the table of browser names it builds
    rand,         \* random.choices: floor(random() * total) of its last draw
    retries,      \* settings.HTTP_RETRIES as configured for the run
    peer          \* how a selection made by another process ended

vars == <<file, pathHasDir, dirExists, pc, call, tasks, mtask, all_browsers, out, log,
          file0, listing, randomize_dict, rand, retries, peer>>


\* how an operation ends: a returned value, an exception, or an exit status
NoOut == [kind |-> "none", val |-> JStr(<<>>), src |-> "", browser |-> <<>>, exc |-> "", code |-> 0]
Return(v, src) == [kind |-> "return", val |-> v, src |-> src, browser |-> <<>>, exc |-> "", code |-> 0]
\* an exception leaves the operation (the interpreter would exit with status 1)
Raise(e) == [kind |-> "raise", val |-> JStr(<<>>), src |-> "", browser |-> <<>>, exc |-> e, code |-> 1]
\* sys.exit(code)
Exit(c) == [kind |-> "exit", val |-> JStr(<<>>), src |-> "", browser |-> <<>>,
            exc |-> "SystemExit", code |-> c]
\* print(v), then the function returns None; b is the browser it chose from
Printed(v, b) == [kind |-> "print", val |-> v, src |-> "", browser |-> b, exc |-> "", code |-> 0]

NoCall == [op |-> "none", given |-> FALSE, name |-> <<>>, use_cache |-> TRUE, browser |-> <<>>]

\* a parse() task: not started, running with its count of timeouts, or done
\* with its result (ok = FALSE is the result None)
IdleTask == [st |-> "idle", attempt |-> 0, ok |-> FALSE, versions |-> <<>>]
NewTask == [st |-> "run", attempt |-> 0, ok |-> FALSE, versions |-> <<>>]
Done(ok, versions) == [st |-> "done", attempt |-> 0, ok |-> ok, versions |-> versions]

(***************************************************************************)
(* src/user_agent.py: parse                                                *)
(***************************************************************************)
\* parse() without its check for an empty list
ParseVersions_NoEmptyCheck(page) ==
    [ok |-> TRUE,
     versions |-> SubSeq(page, 1, IF Len(page) < browser_num THEN Len(page) ELSE browser_num)]

\* the entries parse() returns for the text nodes of a page:
\* [ok, versions]; ok = FALSE is (browser, None)
ParseVersions(page) ==
    LET versions == SubSeq(page, 1, IF Len(page) < browser_num THEN Len(page) ELSE browser_num)
    IN  IF versions = <<>> THEN [ok |-> FALSE, versions |-> <<>>]
        ELSE [ok |-> TRUE, versions |-> versions]

\* call_on_error that does not count the attempt
call_on_error_NoCount(attempt) == attempt

\* call_on_error: the attempt counter after one more timeout
call_on_error(attempt) == attempt + 1

\* one round of parse()'s loop, for the outcome o of its request
ParseAttempt(task, o) ==
    CASE o.kind = "page" ->
            LET r == ParseVersions(o.page) IN Done(r.ok, r.versions)
      [] o.kind = "timeout" ->
            IF call_on_error(task.attempt) = MAX_ATTEMPTS
            THEN Done(FALSE, <<>>)
            ELSE [task EXCEPT !.attempt = call_on_error(task.attempt)]
      [] OTHER -> Done(FALSE, <<>>)

(***************************************************************************)
(* src/user_agent.py: load_and_random                                      *)
(***************************************************************************)
\* a load_and_random whose open() creates the file it does not find
OpenForRead_Creates(f) == IF f.kind = "absent" THEN [kind |-> "text", data |-> <<>>] ELSE f

\* the file after load_and_random: open(cache_path, encoding="utf-8") opens
\* for reading, which leaves the file, present or absent, as it is
OpenForRead(f) == f

\* the ways load_and_random(browser, cache_path) can end on file f, as a sequence
load_and_random(browser, f) ==
    IF f.kind # "text" THEN <<Return(JStr(FIXED_UA), "fixed")>>
    ELSE LET r == Loads(f.data)
         IN  IF ~r.ok THEN <<Raise("JSONDecodeError")>>
             ELSE IF r.val.t # "obj" THEN <<Raise("TypeError")>>
             ELSE IF ~HasKey(r.val.v, browser) THEN <<Raise("KeyError")>>
             ELSE LET c == ChoiceOf(Get(r.val.v, browser))
                  IN  IF Len(c) = 0 THEN <<Raise("IndexError")>>
                      ELSE [i \in 1..Len(c) |-> Return(c[i], "cache")]

(***************************************************************************)
(* src/user_agent.py: main                                                 *)
(***************************************************************************)
\* lines 142-151: the browser main() goes on with, for the browser a random
\* draw gives when it makes one
ResolveBrowser(req, drawn) ==
    IF ~req.given THEN drawn
    ELSE LET browser == Lower(Strip(req.name))
         IN  IF browser \notin BrowserSet
             THEN LET new_browser == drawn IN browser
             ELSE browser

Init ==
    /\ file \in InitialFiles
    /\ pathHasDir \in BOOLEAN
    /\ dirExists \in (IF pathHasDir /\ file = Absent THEN BOOLEAN ELSE {TRUE})
    /\ pc = "idle"
    /\ call = NoCall
    /\ tasks = [b \in BrowserSet |-> IdleTask]
    /\ mtask = IdleTask
    /\ all_browsers = <<>>
    /\ out = NoOut
    /\ log = <<>>
    /\ file0 = file
    /\ listing = <<>>
    /\ randomize_dict = <<>>
    /\ rand = 0
    /\ retries = HTTP_RETRIES
    /\ peer = NoOut

\* main(browser, use_cache): up to the request of parse(), or to the end
MainCall(req, use_cache) ==
    /\ pc = "idle"
    /\ \E drawn \in DrawnBrowsers :
         LET browser == ResolveBrowser(req, drawn)
         IN  /\ call' = [op |-> "main", given |-> req.given, name |-> req.name,
                         use_cache |-> use_cache, browser |-> browser]
             /\ IF use_cache
                THEN /\ \E i \in DOMAIN load_and_random(browser, file) :
                            out' = load_and_random(browser, file)[i]
                     /\ file' = OpenForRead(file)
                     /\ pc' = "idle"
                     /\ mtask' = IdleTask
                     /\ log' = <<"read">>
                ELSE /\ out' = NoOut
                     /\ file' = file
                     /\ pc' = "main_fetch"
                     /\ mtask' = NewTask
                     /\ log' = <<"fetch">>
    /\ file0' = file
    /\ tasks' = [b \in BrowserSet |-> IdleTask]
    /\ all_browsers' = <<>>
    /\ UNCHANGED <<pathHasDir, dirExists, listing, randomize_dict, rand, retries, peer>>

\* main(): one request of its parse() ends
MainFetch ==
    /\ pc = "main_fetch"
    /\ mtask.st = "run"
    /\ \E o \in Outcomes(call.browser) : mtask' = ParseAttempt(mtask, o)
    /\ UNCHANGED <<file, pathHasDir, dirExists, pc, call, tasks, all_browsers, out, log, file0, listing, randomize_dict, rand, retries, peer>>

\* main(): parse() has returned (lines 156-162)
MainFinish ==
    /\ pc = "main_fetch"
    /\ mtask.st = "done"
    /\ IF ~mtask.ok
       THEN /\ \E i \in DOMAIN load_and_random(call.browser, file) :
                   out' = load_and_random(call.browser, file)[i]
            /\ file' = OpenForRead(file)
            /\ log' = Append(log, "read")
       ELSE /\ \E i \in 1..Len(mtask.versions) :
                   out' = Return(JStr(mtask.versions[i]), "live")
            /\ file' = file
            /\ log' = log
    /\ pc' = "idle"
    /\ UNCHANGED <<pathHasDir, dirExists, call, tasks, mtask, all_browsers, file0, listing, randomize_dict, rand, retries, peer>>

(***************************************************************************)
(* src/user_agent.py: die, dump, remove                                    *)
(***************************************************************************)
\* die(): log the error and sys.exit(1)
die == Exit(1)

RECURSIVE BuildCatalog_SkipNone(_, _)
\* dump() that leaves a failed browser out of the catalog instead of exiting
BuildCatalog_SkipNone(results, n) ==
    IF n = 0 THEN [ok |-> TRUE, catalog |-> <<>>]
    ELSE LET before == BuildCatalog_SkipNone(results, n - 1)
             result == results[n]
         IN  IF ~result[2].ok THEN before
             ELSE [ok |-> TRUE,
                   catalog |-> DictSet(before.catalog, result[1],
                                       JArr([i \in 1..Len(result[2].versions) |->
                                                JStr(result[2].versions[i])]))]

RECURSIVE BuildCatalog(_, _)
\* dump() lines 85-90 over the results of gather, which come in the order of
\* BROWSERS: [ok, catalog]; ok = FALSE where a result is None (sys.exit(1))
BuildCatalog(results, n) ==
    IF n = 0 THEN [ok |-> TRUE, catalog |-> <<>>]
    ELSE LET before == BuildCatalog(results, n - 1)
             result == results[n]
         IN  IF ~before.ok THEN before
             ELSE IF ~result[2].ok THEN [ok |-> FALSE, catalog |-> <<>>]
             ELSE [ok |-> TRUE,
                   catalog |-> DictSet(before.catalog, result[1],
                                       JArr([i \in 1..Len(result[2].versions) |->
                                                JStr(result[2].versions[i])]))]

\* a gather that hands each browser the result of the next browser's task
GatherResults_Shifted(ts) ==
    [i \in 1..Len(BROWSERS) |-> <<BROWSERS[i], ts[BROWSERS[(i % Len(BROWSERS)) + 1]]>>]

\* a gather that returns as soon as one task has failed
GatherReady_FirstFailure(ts) ==
    \/ \A b \in BrowserSet : ts[b].st = "done"
    \/ \E b \in BrowserSet : ts[b].st = "done" /\ ~ts[b].ok

\* await asyncio.gather(*tasks) returns when every task is done
GatherReady(ts) == \A b \in BrowserSet : ts[b].st = "done"

\* what asyncio.gather returns: the (browser, versions) of each task, in the
\* order the tasks were given
GatherResults(ts) == [i \in 1..Len(BROWSERS) |-> <<BROWSERS[i], ts[BROWSERS[i]]>>]

\* dump(cache_path): the session opens and one parse() task per browser starts
DumpCall ==
    /\ pc = "idle"
    /\ pc' = "dump_fetch"
    /\ call' = [NoCall EXCEPT !.op = "dump"]
    /\ tasks' = [b \in BrowserSet |-> NewTask]
    /\ mtask' = IdleTask
    /\ all_browsers' = <<>>
    /\ out' = NoOut
    /\ log' = <<"harvest">>
    /\ file0' = file
    /\ UNCHANGED <<file, pathHasDir, dirExists, listing, randomize_dict, rand, retries, peer>>

\* dump(): one request of the parse() task of browser b ends
DumpFetch(b) ==
    /\ pc = "dump_fetch"
    /\ tasks[b].st = "run"
    /\ \E o \in Outcomes(b) : tasks' = [tasks EXCEPT ![b] = ParseAttempt(tasks[b], o)]
    /\ UNCHANGED <<file, pathHasDir, dirExists, pc, call, mtask, all_browsers, out, log, file0, listing, randomize_dict, rand, retries, peer>>

\* dump(): gather returns once every task is done; lines 81-92
DumpGather ==
    /\ pc = "dump_fetch"
    /\ GatherReady(tasks)
    /\ LET results == GatherResults(tasks)
           built == BuildCatalog(results, Len(results))
       IN  IF Len(results) = 0 \/ ~built.ok
           THEN /\ out' = Exit(1)
                /\ pc' = "idle"
                /\ all_browsers' = <<>>
           ELSE /\ out' = out
                /\ pc' = "dump_open"
                /\ all_browsers' = built.catalog
    /\ tasks' = [b \in BrowserSet |-> IdleTask]
    /\ UNCHANGED <<file, pathHasDir, dirExists, call, mtask, log, file0, listing, randomize_dict, rand, retries, peer>>

\* dump() lines 94-105: the directory is made if the path names one that does
\* not exist, then the file is opened for writing, which empties it. Either
\* system call can fail.
DumpOpen ==
    /\ pc = "dump_open"
    /\ \E made \in BOOLEAN, opened \in BOOLEAN :
         LET makes == pathHasDir /\ ~dirExists
         IN  IF makes /\ ~made
             THEN /\ out' = die
                  /\ pc' = "idle"
                  /\ UNCHANGED <<file, dirExists, log>>
             ELSE /\ dirExists' = (dirExists \/ makes)
                  /\ IF opened /\ dirExists'
                     THEN /\ file' = Text(<<>>)
                          /\ pc' = "dump_write"
                          /\ out' = out
                          /\ log' = Append(log, "open")
                     ELSE /\ out' = die
                          /\ pc' = "idle"
                          /\ UNCHANGED <<file, log>>
    /\ UNCHANGED <<pathHasDir, call, tasks, mtask, all_browsers, file0, listing, randomize_dict, rand, retries, peer>>

\* dump() lines 106-109: the text is written and the file closed, or the
\* write fails and the file stays empty
DumpWrite ==
    /\ pc = "dump_write"
    /\ \E written \in BOOLEAN :
         IF written
         THEN /\ file' = Text(Dumps(JObj(all_browsers)))
              /\ out' = Return(JStr(<<>>), "")
              /\ log' = Append(log, "write")
         ELSE /\ out' = die
              /\ UNCHANGED <<file, log>>
    /\ pc' = "idle"
    /\ UNCHANGED <<pathHasDir, dirExists, call, tasks, mtask, all_browsers, file0, listing, randomize_dict, rand, retries, peer>>

\* remove(cache_path): line 118 names `error`, which is not bound there
Remove ==
    /\ pc = "idle"
    /\ call' = [NoCall EXCEPT !.op = "remove"]
    /\ IF pathHasDir /\ ~dirExists
       THEN /\ out' = Raise("UnboundLocalError")
            /\ file' = file
       ELSE \E removed \in BOOLEAN :
              IF removed /\ file # Absent
              THEN /\ file' = Absent
                   /\ out' = Return(JStr(<<>>), "")
              ELSE /\ out' = die
                   /\ file' = file
    /\ tasks' = [b \in BrowserSet |-> IdleTask]
    /\ mtask' = IdleTask
    /\ all_browsers' = <<>>
    /\ log' = <<>>
    /\ file0' = file
    /\ UNCHANGED <<pathHasDir, dirExists, pc, listing, randomize_dict, rand, retries, peer>>

Next ==
    \/ \E req \in Requests, use_cache \in BOOLEAN : MainCall(req, use_cache)
    \/ MainFetch
    \/ MainFinish
    \/ DumpCall
    \/ \E b \in BrowserSet : DumpFetch(b)
    \/ DumpGather
    \/ DumpOpen
    \/ DumpWrite
    \/ Remove

Spec == Init /\ [][Next]_vars


(***************************************************************************)
(* src/fake_useragent/utils.py: get, get_browser_versions                  *)
(***************************************************************************)
more == <<"m", "o", "r", "e">>

RECURSIVE VersionsLoop(_, _, _)
\* the loop of get_browser_versions over the matches, from match i on
VersionsLoop(matches, i, browsers) ==
    IF i > Len(matches) THEN browsers
    ELSE IF Contains(Lower(matches[i]), more) THEN VersionsLoop(matches, i + 1, browsers)
    ELSE IF Len(browsers) + 1 = BROWSERS_COUNT_LIMIT THEN Append(browsers, matches[i])
    ELSE VersionsLoop(matches, i + 1, Append(browsers, matches[i]))

\* get_browser_versions without its check for an empty list
get_browser_versions_NoRaise(matches) ==
    [ok |-> TRUE, versions |-> VersionsLoop(matches, 1, <<>>)]

\* get_browser_versions on the matches of a page: [ok, versions]; ok = FALSE
\* where it raises FakeUserAgentError
get_browser_versions(matches) ==
    LET browsers == VersionsLoop(matches, 1, <<>>)
    IN  IF browsers = <<>> THEN [ok |-> FALSE, versions |-> <<>>]
        ELSE [ok |-> TRUE, versions |-> browsers]

\* one round of get()'s loop for the outcome o of urlopen, and for a response
\* the rest of get_browser_versions. A URLError or OSError (o.kind "timeout",
\* "connection") is retried until attempt == HTTP_RETRIES.
VersionsAttempt(task, o) ==
    LET attempt == task.attempt + 1
    IN  CASE o.kind = "page" ->
                LET r == get_browser_versions(o.page) IN Done(r.ok, r.versions)
          [] o.kind \in {"timeout", "connection"} ->
                IF attempt = HTTP_RETRIES THEN Done(FALSE, <<>>)
                ELSE [task EXCEPT !.attempt = attempt]
          [] OTHER -> Done(FALSE, <<>>)

(***************************************************************************)
(* Properties of the selector and the refresh of src/user_agent.py         *)
(***************************************************************************)
\* a selection (main) has ended
MainEnded == pc = "idle" /\ call.op = "main"
\* a refresh (dump) has ended
DumpEnded == pc = "idle" /\ call.op = "dump"

\* the selection did not get a version list from the site: it made no live
\* fetch (use_cache) or the fetch failed, and went to the cache file
WentToCache == \E i \in 1..Len(log) : log[i] = "read"

\* the file opens and its text is JSON
Readable(f) == f.kind = "text" /\ Loads(f.data).ok

\* the file holds a JSON object with an entry for browser b
HasEntry(f, b) ==
    /\ Readable(f)
    /\ Loads(f.data).val.t = "obj"
    /\ HasKey(Loads(f.data).val.v, b)

\* v is one of the strings of the file's list for browser b
InCacheList(f, b, v) ==
    /\ HasEntry(f, b)
    /\ LET l == Get(Loads(f.data).val.v, b)
       IN  l.t = "arr" /\ \E i \in 1..Len(l.v) : l.v[i] = v

\* the file holds a whole catalog: a non-empty list of strings for every
\* browser of BROWSERS
IntactCatalog(f) ==
    \A b \in BrowserSet :
        /\ HasEntry(f, b)
        /\ LET l == Get(Loads(f.data).val.v, b)
           IN  l.t = "arr" /\ Len(l.v) >= 1 /\ \A i \in 1..Len(l.v) : l.v[i].t = "str"

\* the caller named a browser that is not one of BROWSERS
UnknownBrowser == call.given /\ Lower(Strip(call.name)) \notin BrowserSet

\* C1 (as claimed): whenever the selection did not get a list from the site
\* and the cache file is absent or corrupt (unreadable, not JSON, or without
\* the browser's entry), the selection returns FIXED_UA and does not raise.
C1_FixedWhenNoCache ==
    (MainEnded /\ WentToCache /\ ~HasEntry(file, call.browser))
        => (out.kind = "return" /\ out.val = JStr(FIXED_UA))

\* C2 (as claimed): for every browser name outside the canonical set and
\* every fetch outcome, the selection returns one user-agent string, of a
\* canonical browser or the fixed constant, and does not raise. Stated for
\* the cache states that C1 is not about: no file, or a whole catalog.
C2_LenientNeverRaises ==
    (MainEnded /\ UnknownBrowser /\ (file.kind # "text" \/ IntactCatalog(file)))
        => /\ out.kind = "return"
           /\ out.val.t = "str"
           /\ \/ out.val = JStr(FIXED_UA)
              \/ \E b \in BrowserSet : InCacheList(file, b, out.val)
              \/ \E b \in BrowserSet : \E p \in PagesOf(b) :
                    \E i \in 1..Len(p) : out.val = JStr(p[i])

\* C5 (as claimed): with use_cache = False the chain is live, then cache,
\* then the fixed constant: a live result is one of the fetched versions and
\* the cache file is not read; when the fetch failed and the cache file holds
\* a whole catalog the result is one of its versions for the resolved browser
\* (the browser asked for, or a canonical one for a name outside the set);
\* the fixed constant is returned only when the fetch and the cache read fail.
C5_FallbackChain ==
    (MainEnded /\ ~call.use_cache)
        => /\ (mtask.ok =>
                 /\ ~WentToCache
                 /\ out.kind = "return"
                 /\ \E i \in 1..Len(mtask.versions) : out.val = JStr(mtask.versions[i]))
           /\ (~mtask.ok /\ IntactCatalog(file) =>
                 /\ out.kind = "return"
                 /\ \E b \in BrowserSet :
                       /\ (call.browser \in BrowserSet => b = call.browser)
                       /\ InCacheList(file, b, out.val))
           /\ (out.val = JStr(FIXED_UA) => ~mtask.ok /\ ~Readable(file))

\* C6: a refresh in which the fetch of at least one browser failed or gave no
\* entries ends with exit status 1 as soon as gather returns, whatever the
\* other fetches gave, and the cache file is as it was when the refresh began
\* (absent if it was absent, the same text if it was there).
C6_FailedRefreshWritesNothing ==
    [][(pc = "dump_fetch" /\ pc' # "dump_fetch" /\ \E b \in BrowserSet : ~tasks[b].ok)
          => (out' = Exit(1) /\ pc' = "idle" /\ file' = file /\ file = file0)]_vars

\* a refresh over an existing cache text has ended at gather with status 1
C6_Witness ==
    /\ DumpEnded /\ out = Exit(1) /\ all_browsers = <<>>
    /\ file0.kind = "text" /\ file = file0

\* C7: when a refresh has ended successfully the cache file holds a catalog
\* with exactly one entry for every browser of BROWSERS and no other, and
\* every entry is a non-empty list.
C7_RefreshedCatalogComplete ==
    (DumpEnded /\ out.kind = "return")
        => /\ IntactCatalog(file)
           /\ Len(Loads(file.data).val.v) = Len(BROWSERS)

\* a refresh has written a cache file where there was none
C7_Witness == DumpEnded /\ out.kind = "return" /\ file0 = Absent /\ file.kind = "text"

\* C8: the catalog a successful harvest built, saved by dump() and loaded
\* back by json.loads, is the catalog itself: the same keys in the same
\* order, each with the same strings in the same order.
C8_RoundTrip ==
    (DumpEnded /\ out.kind = "return")
        => Loads(file.data) = [ok |-> TRUE, val |-> JObj(all_browsers)]

\* a catalog whose strings hold a backslash and a newline has been saved
C8_Witness ==
    /\ DumpEnded /\ out.kind = "return"
    /\ Get(all_browsers, chrome) = JArr(<<JStr(UA_more), JStr(UA_bslash)>>)
    /\ Get(all_browsers, edge) = JArr(<<JStr(UA_newline)>>)

C16_KeyedMapping ==
    [][(pc = "dump_fetch" /\ pc' = "dump_open") =>
          /\ Keys(all_browsers') = BROWSERS
          /\ \A b \in BrowserSet :
                /\ Get(all_browsers', b) = JList(tasks[b].versions)
                /\ tasks[b].versions \in PagesOf(b)]_vars

\* a catalog has been built with the list of one entry that chrome's fetch
\* returned and the list of two that edge's returned
C16_Witness ==
    /\ pc = "dump_open"
    /\ Get(all_browsers, chrome) = JList(<<UA_quote>>)
    /\ Get(all_browsers, edge) = JList(<<<<"e">>, <<"E", "2">>>>)

\* a remove() has ended
RemoveEnded == pc = "idle" /\ call.op = "remove"

\* C13 (as claimed): remove(path) either removes the file at the path and
\* returns, or fails through die(), with exit status 1 and the file as it was;
\* it fails so when the directory of the path does not exist and when the
\* removal itself fails (there is no file at the path).
C13_RemoveFailsThroughDie ==
    RemoveEnded
        => /\ \/ out = die /\ file = file0
              \/ out.kind = "return" /\ file0 # Absent /\ file = Absent
           /\ (pathHasDir /\ ~dirExists) => out = die
           /\ file0 = Absent => out = die

\* C20: a selection by main() (which user_agent and aio_user_agent call),
\* whatever browser it is given, with or without use_cache and however its
\* fetch ends, never creates, rewrites or deletes the cache file or its
\* directory; every step that changes the file is a step of dump() or of
\* remove().
C20_SelectionReadOnly ==
    [][/\ call'.op = "main" => (file' = file /\ dirExists' = dirExists)
       /\ file' # file => call'.op \in {"dump", "remove"}]_vars

\* main() without use_cache, whose fetch failed, looked for the cache file,
\* found none and returned FIXED_UA; there is still no file
C20_Witness ==
    /\ MainEnded /\ ~call.use_cache
    /\ log = <<"fetch", "read">>
    /\ out = Return(JStr(FIXED_UA), "fixed")
    /\ file = Absent /\ file0 = Absent

(***************************************************************************)
(* The two fetchers alone, on listings long enough for their limits:       *)
(* parse() of src/user_agent.py and get() + get_browser_versions() of      *)
(* src/fake_useragent/utils.py.                                            *)
(***************************************************************************)
\* listings run up to this many entries past the limit of the fetchers
MaxExtra == 2

Entry(i) == <<"u">> \o Str(i)
\* an entry with the pagination marker, in either case
MoreEntry(i) == IF i % 2 = 0 THEN UA_more \o Str(i) ELSE <<"x">> \o more

\* where the marked entries of a listing of n entries are
MoreKinds == {"none", "first", "last", "odd", "all"}
IsMore(kind, i, n) ==
    CASE kind = "first" -> i = 1
      [] kind = "last"  -> i = n
      [] kind = "odd"   -> i % 2 = 1
      [] kind = "all"   -> TRUE
      [] OTHER          -> FALSE

FetchPage(n, kind) == [i \in 1..n |-> IF IsMore(kind, i, n) THEN MoreEntry(i) ELSE Entry(i)]

FetchPages ==
    LET limit == IF browser_num > BROWSERS_COUNT_LIMIT THEN browser_num
                 ELSE BROWSERS_COUNT_LIMIT
    IN  {FetchPage(n, kind) : n \in 0..(limit + MaxExtra), kind \in MoreKinds}

\* how a request of a fetcher can end: a time-out (aiohttp.ServerTimeoutError;
\* socket.timeout, an OSError), a refused or broken connection
\* (aiohttp.ClientConnectionError; URLError), another exception, or a page
FetchOutcomes ==
    {[kind |-> k, page |-> <<>>] : k \in {"timeout", "connection", "error"}}
    \cup {[kind |-> "page", page |-> p] : p \in FetchPages}

InitFetch ==
    /\ file = Absent
    /\ pathHasDir = FALSE
    /\ dirExists = TRUE
    /\ pc = "idle"
    /\ call = NoCall
    /\ tasks = [b \in BrowserSet |-> IdleTask]
    /\ mtask = IdleTask
    /\ all_browsers = <<>>
    /\ out = NoOut
    /\ log = <<>>
    /\ file0 = file
    /\ listing = <<>>
    /\ randomize_dict = <<>>
    /\ rand = 0
    /\ retries = HTTP_RETRIES
    /\ peer = NoOut

\* a fetcher is called for a browser
FetchStart(fetcher) ==
    /\ pc = "idle"
    /\ pc' = "fetch"
    /\ call' = [NoCall EXCEPT !.op = fetcher]
    /\ mtask' = NewTask
    /\ out' = NoOut
    /\ listing' = <<>>
    /\ log' = <<>>
    /\ UNCHANGED <<file, pathHasDir, dirExists, tasks, all_browsers, file0, randomize_dict,
                   rand, retries, peer>>

\* parse(): one request ends
FetchParse ==
    /\ pc = "fetch" /\ call.op = "parse" /\ mtask.st = "run"
    /\ \E o \in FetchOutcomes :
         /\ mtask' = ParseAttempt(mtask, o)
         /\ listing' = o.page
         /\ log' = Append(log, o.kind)
    /\ UNCHANGED <<file, pathHasDir, dirExists, pc, call, tasks, all_browsers, out,
                   file0, randomize_dict, rand, retries, peer>>

\* get_browser_versions(): one attempt of its get() ends
FetchVersions ==
    /\ pc = "fetch" /\ call.op = "get_browser_versions" /\ mtask.st = "run"
    /\ \E o \in FetchOutcomes :
         /\ mtask' = VersionsAttempt(mtask, o)
         /\ listing' = o.page
         /\ log' = Append(log, o.kind)
    /\ UNCHANGED <<file, pathHasDir, dirExists, pc, call, tasks, all_browsers, out,
                   file0, randomize_dict, rand, retries, peer>>

\* the fetcher returns: parse() its versions or None, get_browser_versions()
\* its list or FakeUserAgentError
FetchReturn ==
    /\ pc = "fetch" /\ mtask.st = "done"
    /\ pc' = "idle"
    /\ out' = IF mtask.ok THEN Return(JList(mtask.versions), "live")
              ELSE IF call.op = "parse" THEN Return(JNone, "live")
              ELSE Raise("FakeUserAgentError")
    /\ UNCHANGED <<file, pathHasDir, dirExists, call, tasks, mtask, all_browsers, log,
                   file0, listing, randomize_dict, rand, retries, peer>>

NextFetch ==
    \/ \E fetcher \in {"parse", "get_browser_versions"} : FetchStart(fetcher)
    \/ FetchParse
    \/ FetchVersions
    \/ FetchReturn

SpecFetch == InitFetch /\ [][NextFetch]_vars

\* every request ends (the session's time-out, settings.HTTP_TIMEOUT) and a
\* fetcher that has its result returns
SpecFetchLive ==
    SpecFetch /\ WF_vars(FetchParse) /\ WF_vars(FetchVersions) /\ WF_vars(FetchReturn)

\* a fetcher has resolved with a version list
FetchSucceeded == mtask.st = "done" /\ mtask.ok

\* C9 (as claimed): every version list a fetcher returns as a success, parse()
\* or get_browser_versions(), for every page, has at most 50 entries and no
\* entry that contains "more" in any case.
C9_BoundedAndFiltered ==
    FetchSucceeded
        => /\ Len(mtask.versions) <= BROWSERS_COUNT_LIMIT
           /\ \A i \in 1..Len(mtask.versions) : ~Contains(Lower(mtask.versions[i]), more)

\* C10: a fetcher never resolves with an empty list as a success: a page from
\* which no entry is kept, none matched or every one filtered out, resolves
\* as a failure.
C10_NoEmptySuccess ==
    /\ FetchSucceeded => Len(mtask.versions) >= 1
    /\ (mtask.st = "done" /\ \A i \in 1..Len(listing) : Contains(Lower(listing[i]), more)
          /\ call.op = "get_browser_versions") => ~mtask.ok
    /\ (mtask.st = "done" /\ listing = <<>>) => ~mtask.ok

\* get_browser_versions() got a page whose entries all carry the marker
C10_Witness ==
    /\ call.op = "get_browser_versions" /\ mtask.st = "done" /\ ~mtask.ok
    /\ Len(listing) > BROWSERS_COUNT_LIMIT
    /\ \A i \in 1..Len(listing) : Contains(Lower(listing[i]), more)

\* parse() is running, has resolved, has returned
ParseRunning == pc = "fetch" /\ call.op = "parse"
ParseResolved == ParseRunning /\ mtask.st = "done"
ParseReturned == pc = "idle" /\ call.op = "parse"

FetchFailed == pc = "fetch" /\ mtask.st = "done" /\ ~mtask.ok

\* C14 (as claimed): a fetcher, parse() or get(), whose last request ended in
\* a transient error, a time-out or a connection error, reports failure only
\* when that was its third request.
C14_TransientRetried ==
    (FetchFailed /\ log # <<>> /\ log[Len(log)] \in {"timeout", "connection"})
        => Len(log) = 3

(***************************************************************************)
(* The draw of main() alone, for a caller that names no browser             *)
(* (src/user_agent.py lines 142-145), over every value of random().        *)
(***************************************************************************)
InitDraw ==
    /\ file = Absent
    /\ pathHasDir = FALSE
    /\ dirExists = TRUE
    /\ pc = "idle"
    /\ call = NoCall
    /\ tasks = [b \in BrowserSet |-> IdleTask]
    /\ mtask = IdleTask
    /\ all_browsers = <<>>
    /\ out = NoOut
    /\ log = <<>>
    /\ file0 = file
    /\ listing = <<>>
    /\ randomize_dict = <<>>
    /\ rand = 0
    /\ retries = HTTP_RETRIES
    /\ peer = NoOut

\* browser = random.choices(BROWSERS, weights=RANDOM_CUM_WEIGHTS, k=1)[0], when
\* floor(random() * total) is r
Draw(r) ==
    /\ pc = "idle"
    /\ rand' = r
    /\ call' = [NoCall EXCEPT !.op = "choices",
                              !.browser = Choices(BROWSERS, RANDOM_CUM_WEIGHTS, r)]
    /\ UNCHANGED <<file, pathHasDir, dirExists, pc, tasks, mtask, all_browsers, out, log,
                   file0, listing, randomize_dict, retries, peer>>

NextDraw == \E r \in Draws(RANDOM_CUM_WEIGHTS) : Draw(r)

SpecDraw == InitDraw /\ [][NextDraw]_vars

\* the number of values for which floor(random() * total) is in Draws
DrawTotal == Cardinality(Draws(RANDOM_CUM_WEIGHTS))

\* the browser that the table [80, 86, 93, 97, 100], taken as thresholds over
\* x = 100 * random(), gives at the least and at the greatest x for which
\* floor(random() * total) is r
ThresholdLow(r) ==
    BROWSERS[1 + Cardinality({i \in 1..(Len(BROWSERS) - 1) :
                                 RANDOM_CUM_WEIGHTS[i] * DrawTotal <= 100 * r})]
ThresholdHigh(r) ==
    BROWSERS[1 + Cardinality({i \in 1..(Len(BROWSERS) - 1) :
                                 RANDOM_CUM_WEIGHTS[i] * DrawTotal < 100 * (r + 1)})]

\* C12 (as claimed): the browser drawn for a caller that names none is the
\* one the table [80, 86, 93, 97, 100] gives as cumulative thresholds over one
\* random value in [0, 100): chrome below 80, edge below 86, firefox below 93,
\* safari below 97, opera below 100.
C12_CumulativeThresholds ==
    call.op = "choices" => call.browser \in {ThresholdLow(rand), ThresholdHigh(rand)}

(***************************************************************************)
(* src/fake_useragent/utils.py: load, get_cache_server, write, read,       *)
(* get_fake_useragent                                                      *)
(***************************************************************************)
browsers_key == <<"b", "r", "o", "w", "s", "e", "r", "s">>
randomize_key == <<"r", "a", "n", "d", "o", "m", "i", "z", "e">>

\* the list load() goes through: (name, percent)
get_browsers ==
    << <<<<"C", "h", "r", "o", "m", "e">>, <<SPACE, "8", "0", ".", "7">>>>,
       <<<<"E", "d", "g", "e">>, <<SPACE, "5", ".", "6">>>>,
       <<<<"F", "i", "r", "e", "f", "o", "x">>, <<SPACE, "6", ".", "1">>>>,
       <<<<"S", "a", "f", "a", "r", "i">>, <<SPACE, "3", ".", "7">>>>,
       <<<<"O", "p", "e", "r", "a">>, <<SPACE, "2", ".", "4">>>> >>

DigitVal(c) ==
    CASE c = "0" -> 0 [] c = "1" -> 1 [] c = "2" -> 2 [] c = "3" -> 3 [] c = "4" -> 4
      [] c = "5" -> 5 [] c = "6" -> 6 [] c = "7" -> 7 [] c = "8" -> 8 [] OTHER -> 9

RECURSIVE Num(_)
\* the number a string of digits writes
Num(ds) == IF ds = <<>> THEN 0
           ELSE 10 * Num(SubSeq(ds, 1, Len(ds) - 1)) + DigitVal(ds[Len(ds)])

\* int(float(percent) * 10) for a percent written with one decimal
int_float_times_10(percent) ==
    LET p == Strip(percent)
        dot == CHOOSE i \in 1..Len(p) : p[i] = "."
    IN  10 * Num(SubSeq(p, 1, dot - 1)) + DigitVal(p[dot + 1])

\* the model keeps at most this many of the equal entries that load() adds
\* to the table for one browser
MaxRun == 2

RECURSIVE AddRun(_, _, _)
\* n times: randomize_dict[str(len(randomize_dict))] = browser
AddRun(d, browser, n) ==
    IF n = 0 THEN d ELSE AddRun(DictSet(d, Str(Len(d)), JStr(browser)), browser, n - 1)

\* load() lines 146-147 for one browser
Randomize(d, browser, percent) ==
    LET n == int_float_times_10(percent)
    IN  AddRun(d, browser, IF n < MaxRun THEN n ELSE MaxRun)

\* load() line 162
LoadResult(browsers_dict, randomize) ==
    JObj(<< <<browsers_key, JObj(browsers_dict)>>, <<randomize_key, JObj(randomize)>> >>)

\* a selector that takes the name as it is given
Shortcut_AsGiven(browser) == browser

\* settings.SHORTCUTS.get(browser, browser)
Shortcut(browser) ==
    IF HasKey(SHORTCUTS, browser) THEN Get(SHORTCUTS, browser) ELSE browser

\* random.choice(browsers[browser]) printed, for a browser taken from the
\* values of randomize or given by the caller; as a sequence of endings
PickFrom(browsers, b) ==
    IF b.t # "str" \/ browsers.t # "obj" THEN <<Raise("TypeError")>>
    ELSE IF ~HasKey(browsers.v, b.v) THEN <<Raise("KeyError")>>
    ELSE LET c == ChoiceOf(Get(browsers.v, b.v))
         IN  IF Len(c) = 0 THEN <<Raise("IndexError")>>
             ELSE [i \in 1..Len(c) |-> Printed(c[i], b.v)]

RECURSIVE PickAny(_, _, _)
\* browser = random.choice(randomize), then the pick: over the first n values
PickAny(browsers, randomize, n) ==
    IF n = 0 THEN <<>>
    ELSE PickAny(browsers, randomize, n - 1) \o PickFrom(browsers, randomize[n][2])

\* get_fake_useragent lines 192-206 on the data it has: the ways it can end
Select(data, req) ==
    IF data.t # "obj" THEN <<Raise("TypeError")>>
    ELSE IF ~HasKey(data.v, browsers_key) \/ ~HasKey(data.v, randomize_key)
         THEN <<Raise("KeyError")>>
    ELSE LET browsers == Get(data.v, browsers_key)
             randomize == Get(data.v, randomize_key)
         IN  IF randomize.t # "obj" THEN <<Raise("AttributeError")>>
             ELSE IF req.given
             THEN LET browser == Shortcut(Lower(Strip(req.name)))
                  IN  IF browsers.t # "obj" THEN <<Raise("AttributeError")>>
                      ELSE IF ~HasKey(browsers.v, browser)
                           THEN <<Raise("FakeUserAgentError")>>
                      ELSE PickFrom(browsers, JStr(browser))
             ELSE IF Len(randomize.v) = 0 THEN <<Raise("IndexError")>>
             ELSE PickAny(browsers, randomize.v, Len(randomize.v))

\* read(path): [ok, val]; ok = FALSE where open(), the decoding or json.loads raises
read(f) == IF f.kind # "text" THEN [ok |-> FALSE, val |-> JStr(<<>>)] ELSE Loads(f.data)

\* write(path, data): the file afterwards
write(data) == Text(Dumps(data))

\* what the cache server can answer with
ServerData ==
    LoadResult(<< <<chrome, JList(<<UA_quote>>)>>, <<edge, JList(<<UA_bslash>>)>> >>,
               << <<<<"0">>, JStr(chrome)>>, <<<<"1">>, JStr(edge)>> >>)
ServerBodies == {Dumps(ServerData), CutShort, Dumps(JObj(OldCatalog))}
ServerOutcomes ==
    {[kind |-> "timeout", page |-> <<>>], [kind |-> "error", page |-> <<>>]}
    \cup {[kind |-> "page", page |-> p] : p \in ServerBodies}

\* a cache file load() wrote earlier
OldData == LoadResult(OldCatalog,
                      [i \in 1..Len(BROWSERS) |-> <<Str(i - 1), JStr(BROWSERS[i])>>])

\* get_fake_useragent that never finds its cache file
isfile_Never(f) == FALSE

\* os.path.isfile(path)
isfile(f) == f.kind # "absent"

SelectInitialFiles ==
    {Absent, Unreadable, Text(CutShort), Text(Dumps(OldData)), Text(Dumps(JObj(OldCatalog)))}

\* both selectors, main() and get_fake_useragent(), given one cache path
InitSelect ==
    /\ file \in SelectInitialFiles
    /\ pathHasDir = TRUE
    /\ dirExists = TRUE
    /\ pc = "idle"
    /\ call = NoCall
    /\ tasks = [b \in BrowserSet |-> IdleTask]
    /\ mtask = IdleTask
    /\ all_browsers = <<>>
    /\ out = NoOut
    /\ log = <<>>
    /\ file0 = file
    /\ listing = <<>>
    /\ randomize_dict = <<>>
    /\ rand = 0
    /\ retries = HTTP_RETRIES
    /\ peer = NoOut

\* the operation ends in one of the ways listed
EndsAs(ends) == \E i \in DOMAIN ends : out' = ends[i]

\* lines 192-206 on what read(path) gave
SelectRead(f, data, req) ==
    IF ~data.ok THEN <<Raise(IF f.kind = "text" THEN "JSONDecodeError" ELSE "OSError")>>
    ELSE Select(data.val, req)

\* get_fake_useragent from the data load() returned: with use_cache,
\* write(path, data) and read(path) first (lines 186-187)
StrictFinish(result, use_cache, req) ==
    IF use_cache
    THEN \E opened \in BOOLEAN :
           IF ~opened
           THEN /\ out' = Raise("OSError")
                /\ log' = log
                /\ file' = file
           ELSE /\ file' = write(result)
                /\ log' = log \o <<"write", "read">>
                /\ EndsAs(SelectRead(file', read(file'), req))
    ELSE /\ EndsAs(Select(result, req))
         /\ log' = log
         /\ file' = file

\* get_fake_useragent(browser, use_cache): to its end when it reads the cache
\* file, else up to the first request of load()
StrictCall(req, use_cache) ==
    /\ pc = "idle"
    /\ call' = [op |-> "get_fake_useragent", given |-> req.given, name |-> req.name,
                use_cache |-> use_cache, browser |-> <<>>]
    /\ file0' = file
    /\ all_browsers' = <<>>
    /\ randomize_dict' = <<>>
    /\ IF use_cache /\ isfile(file)
       THEN /\ EndsAs(SelectRead(file, read(file), req))
            /\ log' = <<"read">>
            /\ pc' = "idle"
            /\ mtask' = IdleTask
       ELSE /\ out' = NoOut
            /\ log' = <<"harvest">>
            /\ pc' = "load"
            /\ mtask' = NewTask
    /\ UNCHANGED <<file, pathHasDir, dirExists, tasks, listing, rand, retries, peer>>

\* load(): one attempt of get() for the next browser of the list ends
StrictFetch ==
    /\ pc = "load" /\ mtask.st = "run"
    /\ LET item == get_browsers[Len(all_browsers) + 1]
           browser == Lower(Strip(item[1]))
           req == [given |-> call.given, name |-> call.name]
       IN  \E o \in Outcomes(browser) :
             LET t == VersionsAttempt(mtask, o)
                 browsers_dict == DictSet(all_browsers, browser, JList(t.versions))
                 randomize == Randomize(randomize_dict, browser, item[2])
             IN  IF t.st = "run"
                 THEN /\ mtask' = t
                      /\ UNCHANGED <<file, pc, all_browsers, randomize_dict, out, log>>
                 ELSE IF ~t.ok
                 THEN /\ mtask' = NewTask
                      /\ pc' = "server"
                      /\ log' = Append(log, "server")
                      /\ all_browsers' = <<>>
                      /\ randomize_dict' = <<>>
                      /\ UNCHANGED <<file, out>>
                 ELSE IF Len(browsers_dict) < Len(get_browsers)
                 THEN /\ mtask' = NewTask
                      /\ all_browsers' = browsers_dict
                      /\ randomize_dict' = randomize
                      /\ UNCHANGED <<file, pc, out, log>>
                 ELSE /\ mtask' = IdleTask
                      /\ all_browsers' = <<>>
                      /\ randomize_dict' = <<>>
                      /\ pc' = "idle"
                      /\ StrictFinish(LoadResult(browsers_dict, randomize), call.use_cache, req)
    /\ UNCHANGED <<pathHasDir, dirExists, call, tasks, file0, listing, rand, retries, peer>>

\* get_cache_server() after get(): json.loads(data), then the rest of
\* get_fake_useragent
ServerFinish(data, use_cache, req) ==
    IF ~data.ok
    THEN /\ out' = Raise("FakeUserAgentError")
         /\ UNCHANGED <<file, log>>
    ELSE StrictFinish(data.val, use_cache, req)

\* get_cache_server(): one attempt of get() for the cache server ends
StrictServer ==
    /\ pc = "server" /\ mtask.st = "run"
    /\ \E o \in ServerOutcomes :
         IF o.kind = "timeout" /\ mtask.attempt + 1 # HTTP_RETRIES
         THEN /\ mtask' = [mtask EXCEPT !.attempt = mtask.attempt + 1]
              /\ UNCHANGED <<file, pc, out, log>>
         ELSE /\ mtask' = IdleTask
              /\ pc' = "idle"
              /\ IF o.kind = "error"
                 THEN /\ out' = Raise("HTTPException")
                      /\ UNCHANGED <<file, log>>
                 ELSE IF o.kind = "timeout"
                 THEN /\ out' = Raise("FakeUserAgentError")
                      /\ UNCHANGED <<file, log>>
                 ELSE ServerFinish(Loads(o.page), call.use_cache,
                                   [given |-> call.given, name |-> call.name])
    /\ UNCHANGED <<pathHasDir, dirExists, call, tasks, all_browsers, randomize_dict, file0,
                   listing, rand, retries, peer>>

\* python user_agent.py [browser] [-n]: one selection by main() in a new process
RunMain(req, use_cache) == call.op = "none" /\ MainCall(req, use_cache)

\* python utils.py, or a program that imports it: one selection by
\* get_fake_useragent() in a new process
RunStrict(req, use_cache) == call.op = "none" /\ StrictCall(req, use_cache)

\* the process ends after its selection: only the cache file stays
ProcessEnds ==
    /\ pc = "idle" /\ call.op # "none"
    /\ call' = NoCall
    /\ out' = NoOut
    /\ log' = <<>>
    /\ mtask' = IdleTask
    /\ file0' = file
    /\ UNCHANGED <<file, pathHasDir, dirExists, pc, tasks, all_browsers, listing, randomize_dict, rand, retries, peer>>

NextSelect ==
    \/ \E req \in Requests, use_cache \in BOOLEAN : RunMain(req, use_cache)
    \/ MainFetch
    \/ MainFinish
    \/ \E req \in Requests, use_cache \in BOOLEAN : RunStrict(req, use_cache)
    \/ StrictFetch
    \/ StrictServer
    \/ ProcessEnds

SpecSelect == InitSelect /\ [][NextSelect]_vars

(***************************************************************************)
(* Properties of the two selectors                                         *)
(***************************************************************************)
\* a selection by either selector has ended
SelectEnded == pc = "idle" /\ call.op \in {"main", "get_fake_useragent"}
\* a selection by get_fake_useragent has ended
StrictEnded == pc = "idle" /\ call.op = "get_fake_useragent"
\* the selection gave a user-agent: main() returned it, get_fake_useragent
\* printed it
Gave == out.kind \in {"return", "print"}

\* the browser the selection chose from
Resolved == IF call.op = "main" THEN call.browser ELSE out.browser

\* the catalog a cache file holds: the object itself as dump() writes it, its
\* "browsers" entry as write(path, load()) writes it
CatalogIn(f) ==
    LET d == Loads(f.data).val
    IN  IF d.t = "obj" /\ HasKey(d.v, browsers_key) THEN Get(d.v, browsers_key) ELSE d

\* ua is one of the strings the file's catalog lists for browser b
Listed(f, b, ua) ==
    /\ Readable(f)
    /\ CatalogIn(f).t = "obj"
    /\ HasKey(CatalogIn(f).v, b)
    /\ LET l == Get(CatalogIn(f).v, b)
       IN  l.t = "arr" /\ \E i \in 1..Len(l.v) : l.v[i] = ua

\* the file holds what write(path, load()) writes: "browsers" with a
\* non-empty list of strings for every browser of BROWSERS, and "randomize"
ValidData(f) ==
    /\ Readable(f)
    /\ Loads(f.data).val.t = "obj"
    /\ HasKey(Loads(f.data).val.v, browsers_key)
    /\ HasKey(Loads(f.data).val.v, randomize_key)
    /\ Get(Loads(f.data).val.v, randomize_key).t = "obj"
    /\ CatalogIn(f).t = "obj"
    /\ \A b \in BrowserSet :
          /\ HasKey(CatalogIn(f).v, b)
          /\ LET l == Get(CatalogIn(f).v, b)
             IN  l.t = "arr" /\ Len(l.v) >= 1 /\ \A i \in 1..Len(l.v) : l.v[i].t = "str"

\* an existing valid cache, in the form the selector that was called reads
ValidCache(f) == IF call.op = "main" THEN IntactCatalog(f) ELSE ValidData(f)

\* the alias table's name for the request, and what it stands for
AliasAsked == call.given /\ call.name \in AliasNames
Canonical(a) == Get(SHORTCUTS, a)
\* the browser a name asks for: what the alias stands for, else the name
\* itself, stripped and in lower case
Asked(n) == IF Lower(Strip(n)) \in AliasNames THEN Canonical(Lower(Strip(n)))
            ELSE Lower(Strip(n))

StrictUnknown == StrictEnded /\ call.given /\ Asked(call.name) \notin BrowserSet

\* C17 (as claimed): get_fake_useragent with a browser name that is neither a
\* canonical browser nor an alias prints no user-agent; over data that could
\* be read it raises FakeUserAgentError; and a request rejected with
\* FakeUserAgentError leaves the cache file as it was, neither created nor
\* rewritten.
C17_UnknownRejected ==
    StrictUnknown
        => /\ out.kind = "raise"
           /\ (call.use_cache /\ ValidData(file0)) => out = Raise("FakeUserAgentError")
           /\ out = Raise("FakeUserAgentError") => file = file0

(***************************************************************************)
(* src/fake_useragent/utils.py: get, for every value of HTTP_RETRIES       *)
(***************************************************************************)
\* the values settings.HTTP_RETRIES is configured with
RetryValues == {-1, 0, 1, 2, 3}
\* the model follows a call of get() for at most this many requests
MaxGetAttempts == 4

\* how one urlopen(...).read() can end: the body, URLError, OSError, or an
\* exception the except clause does not name
GetBodies == {<<>>, CutShort}
GetOutcomes ==
    {[kind |-> k, page |-> <<>>] : k \in {"URLError", "OSError", "error"}}
    \cup {[kind |-> "page", page |-> p] : p \in GetBodies}

InitGet ==
    /\ file = Absent
    /\ pathHasDir = TRUE
    /\ dirExists = TRUE
    /\ pc = "idle"
    /\ call = NoCall
    /\ tasks = [b \in BrowserSet |-> IdleTask]
    /\ mtask = IdleTask
    /\ all_browsers = <<>>
    /\ out = NoOut
    /\ log = <<>>
    /\ file0 = file
    /\ listing = <<>>
    /\ randomize_dict = <<>>
    /\ rand = 0
    /\ retries \in RetryValues
    /\ peer = NoOut

\* get(url): attempt = 0
GetCall ==
    /\ pc = "idle" /\ call.op = "none"
    /\ call' = [NoCall EXCEPT !.op = "get"]
    /\ pc' = "get"
    /\ mtask' = NewTask
    /\ out' = NoOut
    /\ log' = <<>>
    /\ UNCHANGED <<file, pathHasDir, dirExists, tasks, all_browsers, file0, listing,
                   randomize_dict, rand, retries, peer>>

\* one pass of the loop up to the sleep: attempt += 1, the request, and on
\* URLError or OSError the comparison attempt == settings.HTTP_RETRIES
GetAttempt ==
    /\ pc = "get" /\ mtask.attempt < MaxGetAttempts
    /\ \E o \in GetOutcomes :
         /\ mtask' = [mtask EXCEPT !.attempt = mtask.attempt + 1]
         /\ log' = Append(log, o.kind)
         /\ CASE o.kind = "page" ->
                   /\ out' = Return(JStr(o.page), "get")
                   /\ pc' = "idle"
              [] o.kind = "error" ->
                   /\ out' = Raise("HTTPException")
                   /\ pc' = "idle"
              [] OTHER ->
                   IF mtask'.attempt = retries
                   THEN /\ out' = Raise("FakeUserAgentError")
                        /\ pc' = "idle"
                   ELSE /\ out' = out
                        /\ pc' = "get_sleep"
    /\ UNCHANGED <<file, pathHasDir, dirExists, call, tasks, all_browsers, file0, listing,
                   randomize_dict, rand, retries, peer>>

\* sleep(settings.HTTP_DELAY), then the next pass
GetSleep ==
    /\ pc = "get_sleep"
    /\ log' = Append(log, "sleep")
    /\ pc' = "get"
    /\ UNCHANGED <<file, pathHasDir, dirExists, call, tasks, mtask, all_browsers, out, file0,
                   listing, randomize_dict, rand, retries, peer>>

NextGet == GetCall \/ GetAttempt \/ GetSleep

SpecGet == InitGet /\ [][NextGet]_vars

\* the requests of the call so far, and its sleeps
Failures == {"URLError", "OSError"}
GetRequests == Cardinality({i \in 1..Len(log) : log[i] # "sleep"})
GetSleeps == Cardinality({i \in 1..Len(log) : log[i] = "sleep"})
\* every request of the call so far failed with URLError or OSError
GetAllFailed ==
    /\ call.op = "get" /\ log # <<>>
    /\ \A i \in 1..Len(log) : log[i] \in Failures \cup {"sleep"}

\* C18 (as claimed): a call of get() whose requests all fail with URLError or
\* OSError makes no more than HTTP_RETRIES requests (one, where HTTP_RETRIES
\* is below one), and the loop ends: it has raised FakeUserAgentError after
\* exactly HTTP_RETRIES requests, with a sleep after each failed request but
\* the last; this for every value of HTTP_RETRIES, zero and negative values
\* included.
C18_GetRetries ==
    GetAllFailed
        => /\ GetRequests <= (IF retries < 1 THEN 1 ELSE retries)
           /\ GetRequests = (IF retries < 1 THEN 1 ELSE retries)
                 => /\ pc = "idle"
                    /\ out = Raise("FakeUserAgentError")
                    /\ GetSleeps = GetRequests - 1
           /\ pc = "idle" => out = Raise("FakeUserAgentError")

(***************************************************************************)
(* src/user_agent.py: dump() in one process, a selection with use_cache in *)
(* another process, on the same cache path                                 *)
(***************************************************************************)
\* the lengths of the first part of the text that the model lets reach the
\* file before the rest
FlushPoints(text) == {Len(text) \div 2}

InitRace ==
    /\ file \in {Absent, Text(Dumps(JObj(OldCatalog)))}
    /\ pathHasDir = TRUE
    /\ dirExists = TRUE
    /\ pc = "idle"
    /\ call = NoCall
    /\ tasks = [b \in BrowserSet |-> IdleTask]
    /\ mtask = IdleTask
    /\ all_browsers = <<>>
    /\ out = NoOut
    /\ log = <<>>
    /\ file0 = file
    /\ listing = <<>>
    /\ randomize_dict = <<>>
    /\ rand = 0
    /\ retries = HTTP_RETRIES
    /\ peer = NoOut

\* python user_agent.py -d: one dump() in a new process
RunDump == call.op = "none" /\ DumpCall

\* dump() line 107, f.write(dumped): the file object hands the text to the
\* system in one or more writes, so a first part of it can be in the file
\* before the whole
DumpFlush ==
    /\ pc = "dump_write" /\ file = Text(<<>>)
    /\ \E k \in FlushPoints(Dumps(JObj(all_browsers))) :
          file' = Text(SubSeq(Dumps(JObj(all_browsers)), 1, k))
    /\ UNCHANGED <<pathHasDir, dirExists, pc, call, tasks, mtask, all_browsers, out, log,
                   file0, listing, randomize_dict, rand, retries, peer>>

\* main(browser, use_cache=True) in the other process: load_and_random on the
\* file as it is at that moment
PeerSelect(browser) ==
    /\ peer = NoOut
    /\ \E i \in DOMAIN load_and_random(browser, file) :
          peer' = [load_and_random(browser, file)[i] EXCEPT !.browser = browser]
    /\ UNCHANGED <<file, pathHasDir, dirExists, pc, call, tasks, mtask, all_browsers, out,
                   log, file0, listing, randomize_dict, rand, retries>>

NextRace ==
    \/ RunDump
    \/ \E b \in BrowserSet : DumpFetch(b)
    \/ DumpGather
    \/ DumpOpen
    \/ DumpFlush
    \/ DumpWrite
    \/ \E b \in BrowserSet : PeerSelect(b)

SpecRace == InitRace /\ [][NextRace]_vars

\* the other process's selection has ended
PeerEnded == peer.kind # "none"
\* ua is one of the list of browser b in the catalog the dump has built
InNewCatalog(b, ua) ==
    /\ HasKey(all_browsers, b)
    /\ \E i \in 1..Len(Get(all_browsers, b).v) : Get(all_browsers, b).v[i] = ua

\* C19 (as claimed): a selection made in another process while dump() runs
\* on the same cache path, at whatever point of dump()'s opening and writing
\* of the file it reads, returns FIXED_UA, one of the old catalog's list for
\* its browser, or one of the new catalog's list for it, and does not raise.
C19_RaceSafe ==
    PeerEnded
        => /\ peer.kind = "return"
           /\ \/ peer.val = JStr(FIXED_UA)
              \/ Listed(file0, peer.browser, peer.val)
              \/ InNewCatalog(peer.browser, peer.val)

====
